---- MODULE Spec2Model ----
(***************************************************************************)
(* Call negotiation and media-session coordinator of chatflow-realtime:    *)
(* the useWebRTCCall hook (second definition in src/unnamed/part_002,      *)
(* lines 438-937), run by two parties over one shared Firebase store.      *)
(*                                                                         *)
(* One party record holds the hook's React state, its refs, the media and  *)
(* peer-connection objects the hook created, its store subscriptions and   *)
(* the asynchronous invocations suspended at an await.  Every action is    *)
(* one run-to-completion step of JavaScript: a command or a callback up to *)
(* its first await, or the continuation after an await up to the next.     *)
(***************************************************************************)
EXTENDS Integers, Sequences, FiniteSets, TLC

\* ----- bounds of the model ------------------------------------------------
MaxCalls == 2    \* call ids (push keys) generated in one behaviour
MaxMedia == 3    \* getUserMedia requests per party
MaxCands == 3    \* local ICE candidates one peer connection emits
MaxProcs == 2    \* asynchronous invocations suspended at once per party
MaxTicks == 1    \* ticks of the duration timer that are counted

Parties == {"A", "B"}
Callers == {"A"}                \* the parties whose user starts calls
Other(p) == IF p = "A" THEN "B" ELSE "A"
CallTypes == {"audio", "video"}

NullId == 0                     \* callIdRef.current === null, and the path segment "null"
Keys == NullId .. MaxCalls      \* path segments used as call id

\* snapshot.val() === null; update() of a missing path creates it from this
NoRec == [status |-> "absent", callerId |-> "none", receiverId |-> "none",
          type |-> "none", answeredAt |-> FALSE, endedAt |-> FALSE]
NoCall == [id |-> -1]           \* state.callData === null

VARIABLES
    party,       \* per party: the hook instance (state, refs, objects, subscriptions, awaits)
    incoming,    \* calls/{uid}/incoming/{callId}: the signaling records
    offer,       \* calls/{callId}/offer: the values written, in order (last is current)
    answer,      \* calls/{callId}/answer: the values written, in order (last is current)
    candidates,  \* calls/{callId}/candidates/{uid}: the pushed children, in order
    nextKey,     \* the next push key under calls/{uid}/incoming
    budget       \* per kind, how many more events the users, devices and network produce

vars == <<party, incoming, offer, answer, candidates, nextKey, budget>>
store == <<incoming, offer, answer, candidates, nextKey>>

\* ----- sequences ----------------------------------------------------------
Range(s) == {s[i] : i \in DOMAIN s}
RemoveAt(s, i) == [j \in 1 .. (Len(s) - 1) |-> IF j < i THEN s[j] ELSE s[j + 1]]
Last(s) == s[Len(s)]
IsPrefix(s, t) == Len(s) <= Len(t) /\ \A i \in DOMAIN s : s[i] = t[i]

\* ----- media objects ------------------------------------------------------
\* A MediaStreamTrack: readyState live/ended, the enabled flag, the facing mode it
\* was requested with ("none" for audio), and how often stop() was called on it.
NewTrack(kind, facing) ==
    [kind |-> kind, live |-> TRUE, enabled |-> TRUE, facing |-> facing, stops |-> 0]

\* track.stop()
StopTrack(tr) == [tr EXCEPT !.live = FALSE, !.stops = @ + 1]

\* A MediaStream is the pair of its track indexes (video = 0: no video track).
StreamTracks(st) == {st.audio, st.video} \ {0}

\* navigator.mediaDevices.getUserMedia resolving: new tracks and a new stream are
\* appended to the party's objects; the stream is the last of s.streams.
GetUserMedia(s, type, facing) ==
    LET a == Len(s.tracks) + 1
        v == IF type = "video" THEN a + 1 ELSE 0
        tr == IF type = "video"
              THEN s.tracks \o <<NewTrack("audio", "none"), NewTrack("video", facing)>>
              ELSE Append(s.tracks, NewTrack("audio", "none"))
    IN  [s EXCEPT !.tracks = tr, !.streams = Append(@, [audio |-> a, video |-> v])]

\* track.stop() on every track of stream st
StopTracks(tracks, st) ==
    [i \in DOMAIN tracks |->
        IF i \in StreamTracks(st) THEN StopTrack(tracks[i]) ELSE tracks[i]]

LiveTracks(s) == {i \in DOMAIN s.tracks : s.tracks[i].live}

\* ----- peer connections ---------------------------------------------------
\* new RTCPeerConnection: key is the call id the hook holds when it creates it.
NewPc(key) ==
    [open |-> TRUE, local |-> FALSE, remote |-> FALSE, sig |-> "stable",
     conn |-> "new", emitted |-> 0, applied |-> <<>>, key |-> key,
     vsender |-> 0, asender |-> 0, closes |-> 0, ice |-> "new", restarts |-> 0]

\* pc.close()
ClosePc(pc) == [pc EXCEPT !.open = FALSE, !.sig = "closed", !.conn = "closed",
                          !.ice = "closed", !.closes = @ + 1]

\* pc.addIceCandidate(c): the call is logged with whether the connection was open
\* with a remote description (otherwise the promise rejects and the caller's
\* try/catch swallows it).  The promise also rejects for a candidate the agent
\* cannot use (c.ok false: no matching media section or ICE generation).
AddIceCandidate(pc, c) ==
    [pc EXCEPT !.applied = Append(@, [c |-> c, rd |-> pc.open /\ pc.remote])]

\* ----- the hook's state ---------------------------------------------------
InitParty ==
    [status |-> "idle", callData |-> NoCall, localStream |-> 0,
     isMuted |-> FALSE, isVideoOff |-> FALSE, callDuration |-> 0,
     connectionState |-> "new", isFrontCamera |-> TRUE,
     peerConnection |-> 0, localStreamRef |-> 0, callIdRef |-> NullId,
     durationInterval |-> FALSE, timers |-> 0, candidateQueue |-> <<>>,
     tracks |-> <<>>, streams |-> <<>>, pcs |-> <<>>,
     subStatus |-> "idle", inbox |-> <<>>,
     answerSubs |-> <<>>, candSubs |-> <<>>,
     procs |-> <<>>, requests |-> 0, uncaught |-> FALSE, rethrown |-> FALSE]

\* cleanup that forgets to clear localStreamRef.current after stopping the tracks
cleanupKeepsStreamRef(s) ==
    LET s1 == IF s.localStreamRef # 0
              THEN [s EXCEPT !.tracks = StopTracks(@, s.streams[s.localStreamRef])]
              ELSE s
        s2 == IF s1.peerConnection # 0
              THEN [s1 EXCEPT !.pcs[s1.peerConnection] = ClosePc(@),
                              !.peerConnection = 0]
              ELSE s1
    IN  [s2 EXCEPT !.durationInterval = FALSE,
                   !.timers = IF s2.durationInterval THEN @ - 1 ELSE @,
                   !.callIdRef = NullId,
                   !.status = "idle", !.callData = NoCall, !.localStream = 0,
                   !.isMuted = FALSE, !.isVideoOff = FALSE, !.callDuration = 0,
                   !.connectionState = "new"]

\* cleanup that leaves the duration timer running
cleanupKeepsTimer(s) ==
    LET s1 == IF s.localStreamRef # 0
              THEN [s EXCEPT !.tracks = StopTracks(@, s.streams[s.localStreamRef]),
                             !.localStreamRef = 0]
              ELSE s
        s2 == IF s1.peerConnection # 0
              THEN [s1 EXCEPT !.pcs[s1.peerConnection] = ClosePc(@),
                              !.peerConnection = 0]
              ELSE s1
    IN  [s2 EXCEPT !.callIdRef = NullId,
                   !.status = "idle", !.callData = NoCall, !.localStream = 0,
                   !.isMuted = FALSE, !.isVideoOff = FALSE, !.callDuration = 0,
                   !.connectionState = "new"]

\* cleanup (lines 458-489); timers counts the intervals set and not cleared
cleanup(s) ==
    LET s1 == IF s.localStreamRef # 0
              THEN [s EXCEPT !.tracks = StopTracks(@, s.streams[s.localStreamRef]),
                             !.localStreamRef = 0]
              ELSE s
        s2 == IF s1.peerConnection # 0
              THEN [s1 EXCEPT !.pcs[s1.peerConnection] = ClosePc(@),
                              !.peerConnection = 0]
              ELSE s1
        s3 == IF s2.durationInterval
              THEN [s2 EXCEPT !.durationInterval = FALSE, !.timers = @ - 1]
              ELSE s2
    IN  [s3 EXCEPT !.callIdRef = NullId,
                   !.status = "idle", !.callData = NoCall, !.localStream = 0,
                   !.isMuted = FALSE, !.isVideoOff = FALSE, !.callDuration = 0,
                   !.connectionState = "new"]

\* getMediaStream (lines 545-567), the part after getUserMedia resolved
getMediaStream(s, type) ==
    LET s1 == GetUserMedia(s, type, "user")
        stream == Len(s1.streams)
    IN  [s1 EXCEPT !.localStreamRef = stream, !.localStream = stream]

\* createPeerConnection (lines 569-617) followed by the callers' addTrack loop
\* (lines 675-677, 752-754): the new connection becomes peerConnection.current and
\* gets one sender per track of the stream.
createPeerConnection(s, stream) ==
    LET st == s.streams[stream]
        pc == [NewPc(s.callIdRef) EXCEPT !.asender = st.audio, !.vsender = st.video]
    IN  [s EXCEPT !.pcs = Append(@, pc), !.peerConnection = Len(s.pcs) + 1]

\* startDurationTimer (lines 619-624)
startDurationTimer(s) ==
    [s EXCEPT !.timers = (IF s.durationInterval THEN @ - 1 ELSE @) + 1,
              !.durationInterval = TRUE]

\* ----- the world: both hooks and the store --------------------------------
World == [party |-> party, incoming |-> incoming, offer |-> offer,
          answer |-> answer, candidates |-> candidates, nextKey |-> nextKey]

\* a step that leaves the world as w.  kind names what the step takes from the
\* budget: an event that originates outside the hooks (a user command that passes
\* its guard, a device or network event); "none" for a continuation or a callback
Step(w, kind) ==
    /\ kind # "none" => budget[kind] > 0
    /\ budget' = IF kind = "none" THEN budget ELSE [budget EXCEPT ![kind] = @ - 1]
    /\ party' = w.party
    /\ incoming' = w.incoming
    /\ offer' = w.offer
    /\ answer' = w.answer
    /\ candidates' = w.candidates
    /\ nextKey' = w.nextKey

\* set(ref, value) / update(ref, fields) on calls/{owner}/incoming/{key}: a path
\* that did not exist is a new child of the owner's incoming list (child_added).
PutRecord(w, owner, key, rec) ==
    [w EXCEPT !.incoming[owner][key] = rec,
              !.party[owner].inbox =
                  IF w.incoming[owner][key].status = "absent" THEN Append(@, key) ELSE @]

UpdateStatus(w, owner, key, status, stamp) ==
    PutRecord(w, owner, key,
              [w.incoming[owner][key] EXCEPT !.status = status, ![stamp] = TRUE])

Spawn(s, pr) == [s EXCEPT !.procs = Append(@, pr)]
Finish(s, i) == [s EXCEPT !.procs = RemoveAt(@, i)]
\* an invocation suspended at an await: its position and the locals it resumes with
Proc(op, at, pc, key, cd) == [op |-> op, at |-> at, pc |-> pc, key |-> key, cd |-> cd]
At(p, i, op, at) ==
    /\ i \in DOMAIN party[p].procs
    /\ party[p].procs[i].op = op
    /\ party[p].procs[i].at = at

\* ----- endCall (lines 815-829) ---------------------------------------------
\* cd is state.callData of the render whose endCall is invoked.  With a call id
\* and call data the status update is issued and cleanup waits for it; otherwise
\* cleanup runs at once.
EndCallWrites(s, cd) == s.callIdRef # NullId /\ cd # NoCall

endCall(w, p, cd) ==
    LET s == w.party[p]
        owner == IF cd.callerId = p THEN cd.receiverId ELSE p
    IN  IF EndCallWrites(s, cd)
        THEN [UpdateStatus(w, owner, s.callIdRef, "ended", "endedAt")
                 EXCEPT !.party[p] = Spawn(@, Proc("end", "update", 0, NullId, NoCall))]
        ELSE [w EXCEPT !.party[p] = cleanup(@)]

\* ----- initiateCall (lines 661-739) ---------------------------------------
KeysInFlight ==
    Cardinality({<<q, i>> \in Parties \X (1 .. MaxProcs) :
                    At(q, i, "initiate", "media")})

\* lines 663-669: the guard, status "calling", getUserMedia requested
initiateCall(w, p, type) ==
    LET s == w.party[p]
        cd == [callerId |-> p, receiverId |-> Other(p), type |-> type,
               seen |-> s.callData]
    IN  IF s.status # "idle" THEN w
        ELSE [w EXCEPT !.party[p] =
                 Spawn([s EXCEPT !.status = "calling", !.requests = @ + 1],
                       Proc("initiate", "media", 0, NullId, cd))]

\* a catch of initiateCall that re-throws without calling endCall
initiateCatchNoEndCall(w, p, i) ==
    [w EXCEPT !.party[p] = [Finish(@, i) EXCEPT !.rethrown = TRUE]]

\* the catch of initiateCall (lines 732-736): endCall of the render in which the
\* invocation was made (cd.seen is its state.callData), then the error re-thrown
\* to the invoker
initiateCatch(w, p, i) ==
    LET cd == w.party[p].procs[i].cd
    IN  endCall([w EXCEPT !.party[p] = [Finish(@, i) EXCEPT !.rethrown = TRUE]],
                p, cd.seen)

\* initiateMedia that writes the record under the caller's own incoming list
initiateMediaOwnPath(w, p, i) ==
    LET s == w.party[p]
        cd == s.procs[i].cd
        s1 == getMediaStream(s, cd.type)
        s2 == createPeerConnection(s1, Len(s1.streams))
        key == w.nextKey
        rec == [status |-> "pending", callerId |-> p, receiverId |-> cd.receiverId,
                type |-> cd.type, answeredAt |-> FALSE, endedAt |-> FALSE]
        s3 == [s2 EXCEPT !.callIdRef = key,
                         !.pcs[s2.peerConnection].key = key,
                         !.procs[i].at = "record",
                         !.procs[i].pc = s2.peerConnection]
    IN  PutRecord([w EXCEPT !.party[p] = s3, !.nextKey = key + 1], p, key, rec)

\* lines 669-696 after getUserMedia resolved: stream, peer connection, push key,
\* record written
initiateMedia(w, p, i) ==
    LET s == w.party[p]
        cd == s.procs[i].cd
        s1 == getMediaStream(s, cd.type)
        s2 == createPeerConnection(s1, Len(s1.streams))
        key == w.nextKey
        rec == [status |-> "pending", callerId |-> p, receiverId |-> cd.receiverId,
                type |-> cd.type, answeredAt |-> FALSE, endedAt |-> FALSE]
        s3 == [s2 EXCEPT !.callIdRef = key,
                         !.pcs[s2.peerConnection].key = key,
                         !.procs[i].at = "record",
                         !.procs[i].pc = s2.peerConnection]
    IN  PutRecord([w EXCEPT !.party[p] = s3, !.nextKey = key + 1],
                  cd.receiverId, key, rec)

\* lines 698-706 after the record write and createOffer/setLocalDescription: the
\* offer is stored under the call id the ref holds now
initiateOffer(w, p, i) ==
    LET s == w.party[p]
        pc == s.procs[i].pc
    IN  [w EXCEPT !.party[p] = [s EXCEPT !.pcs[pc].local = TRUE,
                                         !.pcs[pc].sig = "have-local-offer",
                                         !.procs[i].at = "stored"],
                  !.offer[s.callIdRef] = Append(@, [by |-> p, pc |-> pc])]

\* lines 708-730 after the offer write: callData set, answer and candidate
\* listeners installed
initiateStored(w, p, i) ==
    LET s == w.party[p]
        pr == s.procs[i]
        key == s.callIdRef
    IN  [w EXCEPT !.party[p] =
            Finish([s EXCEPT
                      !.callData = [id |-> key, callerId |-> pr.cd.callerId,
                                    receiverId |-> pr.cd.receiverId,
                                    type |-> pr.cd.type],
                      !.answerSubs = Append(@, [key |-> key, pc |-> pr.pc,
                                                seen |-> Len(w.answer[key])]),
                      !.candSubs = Append(@, [key |-> key, from |-> pr.cd.receiverId,
                                              next |-> 1])], i)]

\* ----- candidate queue (lines 626-659) --------------------------------------
\* one turn of the while loop of processCandidateQueue: shift, then
\* peerConnection.current.addIceCandidate inside try/catch (a null ref throws a
\* TypeError that the catch swallows)
drainTurn(s) ==
    LET c == Head(s.candidateQueue)
        s1 == [s EXCEPT !.candidateQueue = Tail(@)]
    IN  IF s1.peerConnection = 0 THEN s1
        ELSE [s1 EXCEPT !.pcs[s1.peerConnection] = AddIceCandidate(@, c)]

\* processCandidateQueue up to its first await: the guard, then the first turn.
\* It stays suspended (as a "drain" invocation) iff it called addIceCandidate or
\* caught an error, i.e. iff the queue was not empty.
DrainEnters(s) ==
    /\ s.peerConnection # 0
    /\ s.pcs[s.peerConnection].remote
    /\ s.candidateQueue # <<>>

processCandidateQueue(s) ==
    IF DrainEnters(s)
    THEN Spawn(drainTurn(s), Proc("drain", "loop", 0, NullId, NoCall))
    ELSE s

\* processCandidateQueue in which a rejected addIceCandidate ends the loop with
\* an exception
drainResumeStops(s, i) ==
    IF s.candidateQueue = <<>> THEN Finish(s, i)
    ELSE IF Head(s.candidateQueue).ok THEN drainTurn(s)
    ELSE [Finish(drainTurn(s), i) EXCEPT !.uncaught = TRUE]

\* processCandidateQueue resumed after an await: the loop test and the next turn
drainResume(s, i) ==
    IF s.candidateQueue = <<>> THEN Finish(s, i) ELSE drainTurn(s)

\* handleCandidate that drops a candidate arriving before the remote description
handleCandidateNoQueue(s, c) ==
    IF s.peerConnection = 0 THEN s
    ELSE IF s.pcs[s.peerConnection].remote
         THEN [s EXCEPT !.pcs[s.peerConnection] = AddIceCandidate(@, c)]
         ELSE s

\* handleCandidate (lines 644-659)
handleCandidate(s, c) ==
    IF s.peerConnection = 0 THEN s
    ELSE IF s.pcs[s.peerConnection].remote
         THEN [s EXCEPT !.pcs[s.peerConnection] = AddIceCandidate(@, c)]
         ELSE [s EXCEPT !.candidateQueue = Append(@, c)]

\* the onValue callback on the answer path (lines 715-721), for a non-null value
AnswerApplies(pc) == pc.sig # "stable"

\* setRemoteDescription rejects on a closed connection (signalingState "closed"):
\* the async callback ends with an uncaught exception
answerValue(s, i) ==
    LET sub == s.answerSubs[i]
    IN  IF ~AnswerApplies(s.pcs[sub.pc]) THEN s
        ELSE IF s.pcs[sub.pc].open
        THEN processCandidateQueue(
                 [s EXCEPT !.pcs[sub.pc].remote = TRUE, !.pcs[sub.pc].sig = "stable"])
        ELSE [s EXCEPT !.uncaught = TRUE]

\* pc.onicecandidate (lines 572-580); ok: whether the remote agent will be able
\* to use the candidate
onicecandidate(w, p, j, ok) ==
    LET s == w.party[p]
        n == s.pcs[j].emitted + 1
        w1 == [w EXCEPT !.party[p].pcs[j].emitted = n]
    IN  IF s.callIdRef # NullId
        THEN [w1 EXCEPT !.candidates[s.callIdRef][p] =
                            Append(@, [key |-> s.callIdRef, from |-> p, pc |-> j, n |-> n,
                                        ok |-> ok])]
        ELSE w1

\* onconnectionstatechange that sets status connected without starting the timer
onconnectionstatechangeNoTimer(w, p, j, state) ==
    LET w1 == [w EXCEPT !.party[p].pcs[j].conn = state]
    IN  IF state = "connected"
        THEN [w1 EXCEPT !.party[p].status = "connected"]
        ELSE endCall(w1, p, NoCall)

\* pc.onconnectionstatechange (lines 589-596); endCall is the one of the render
\* that created createPeerConnection (deps [user]), whose callData is null
onconnectionstatechange(w, p, j, state) ==
    LET w1 == [w EXCEPT !.party[p].pcs[j].conn = state]
    IN  IF state = "connected"
        THEN [w1 EXCEPT !.party[p] = startDurationTimer([@ EXCEPT !.status = "connected"])]
        ELSE endCall(w1, p, NoCall)

\* pc.oniceconnectionstatechange (lines 598-613): restarts counts the calls of
\* pc.restartIce()
oniceconnectionstatechange(w, p, j, state) ==
    LET w1 == [w EXCEPT !.party[p].connectionState = state,
                        !.party[p].pcs[j].ice = state]
    IN  IF state = "failed"
        THEN [w1 EXCEPT !.party[p].pcs[j].restarts = @ + 1]
        ELSE w1

\* ----- answerCall (lines 741-801) -------------------------------------------
AnswerGuard(s) == s.callData # NoCall /\ s.status = "ringing"

answerCall(w, p) ==
    LET s == w.party[p]
    IN  IF ~AnswerGuard(s) THEN w
        ELSE [w EXCEPT !.party[p] =
                 Spawn([s EXCEPT !.requests = @ + 1],
                       Proc("answer", "media", 0, NullId, s.callData))]

\* the catch of answerCall (lines 797-800): endCall of the render in which this
\* answerCall was created, whose callData is the one the invocation read
answerCatch(w, p, i) ==
    LET cd == w.party[p].procs[i].cd
    IN  endCall([w EXCEPT !.party[p] = Finish(@, i)], p, cd)

\* lines 746-760 after getUserMedia resolved: stream, peer connection, the offer
\* path is built from callIdRef.current and read once
answerMedia(w, p, i) ==
    LET s == w.party[p]
        s1 == getMediaStream(s, s.procs[i].cd.type)
        s2 == createPeerConnection(s1, Len(s1.streams))
    IN  [w EXCEPT !.party[p] = [s2 EXCEPT !.procs[i].at = "offer",
                                          !.procs[i].pc = s2.peerConnection,
                                          !.procs[i].key = s2.callIdRef]]

\* lines 761-764: the offer snapshot arrived; without an offer answerCall returns
answerOffer(w, p, i) ==
    LET s == w.party[p]
    IN  IF w.offer[s.procs[i].key] = <<>>
        THEN [w EXCEPT !.party[p] = Finish(s, i)]
        ELSE [w EXCEPT !.party[p].procs[i].at = "sdp"]

\* lines 764-774 after setRemoteDescription/createAnswer/setLocalDescription:
\* the answer is stored under the call id the ref holds now
answerSdp(w, p, i) ==
    LET s == w.party[p]
        pc == s.procs[i].pc
    IN  [w EXCEPT !.party[p] = [s EXCEPT !.pcs[pc].remote = TRUE,
                                         !.pcs[pc].local = TRUE,
                                         !.pcs[pc].sig = "stable",
                                         !.procs[i].at = "answer"],
                  !.answer[s.callIdRef] = Append(@, [by |-> p, pc |-> pc])]

\* lines 776-780 after the answer write: status accepted
answerStored(w, p, i) ==
    [UpdateStatus(w, p, w.party[p].callIdRef, "accepted", "answeredAt")
        EXCEPT !.party[p].procs[i].at = "accepted"]

\* lines 782-795 after the status update: candidate listener, then the queue
answerAccepted(w, p, i) ==
    LET s == w.party[p]
        pr == s.procs[i]
        s1 == Finish([s EXCEPT !.candSubs =
                         Append(@, [key |-> s.callIdRef, from |-> pr.cd.callerId,
                                    next |-> 1])], i)
    IN  [w EXCEPT !.party[p] = processCandidateQueue(s1)]

\* ----- rejectCall (lines 804-813) -------------------------------------------
RejectGuard(s) == s.callIdRef # NullId

rejectCall(w, p) ==
    LET s == w.party[p]
    IN  IF ~RejectGuard(s) THEN w
        ELSE [UpdateStatus(w, p, s.callIdRef, "rejected", "endedAt")
                 EXCEPT !.party[p] = Spawn(@, Proc("reject", "update", 0, NullId, NoCall))]

\* ----- call-status effect (lines 513-543) -----------------------------------
StatusPath(p, cd) == IF cd.callerId = p THEN cd.receiverId ELSE p

\* the subscription exists when state.callData?.id is truthy
StatusWatched(s) == s.callData # NoCall /\ s.callData.id # NullId

\* the onValue callback: data is snapshot.val()
statusValue(s, data) ==
    IF data.status \in {"absent", "ended", "rejected"} THEN cleanup(s) ELSE s

\* ----- writes the server rejects ----------------------------------------------
\* the call-status subscription of s is on calls/{owner}/incoming/{key}
Watching(s, p, owner, key) ==
    /\ StatusWatched(s)
    /\ StatusPath(p, s.callData) = owner
    /\ s.callData.id = key

\* update(calls/{owner}/incoming/{key}, {status, ...}) that the server rejects:
\* the SDK applies the write locally and raises the writer's own listeners with
\* it, rolls it back (the listener then sees the old value again, on which it
\* does nothing), and rejects the promise, which the awaiting endCall/rejectCall
\* does not catch: the rest of the invocation, cleanup included, does not run
deniedStatus(w, p, owner, key, status) ==
    LET s == w.party[p]
        seenLocally == [w.incoming[owner][key] EXCEPT !.status = status]
        s1 == IF Watching(s, p, owner, key) THEN statusValue(s, seenLocally) ELSE s
    IN  [w EXCEPT !.party[p] = [s1 EXCEPT !.uncaught = TRUE]]

\* endCall (lines 815-829) whose status update is rejected
endCallDenied(w, p, cd) ==
    LET s == w.party[p]
        owner == IF cd.callerId = p THEN cd.receiverId ELSE p
    IN  IF EndCallWrites(s, cd)
        THEN deniedStatus(w, p, owner, s.callIdRef, "ended")
        ELSE [w EXCEPT !.party[p] = cleanup(@)]

\* rejectCall (lines 804-813) whose status update is rejected
rejectCallDenied(w, p) ==
    LET s == w.party[p]
    IN  IF ~RejectGuard(s) THEN w
        ELSE deniedStatus(w, p, p, s.callIdRef, "rejected")

\* initiateCall up to set(newCallRef, callData) (lines 669-696), rejected: the
\* push key was taken, the record is not created, the catch runs
initiateRecordDenied(w, p, i) ==
    LET s == w.party[p]
        s1 == getMediaStream(s, s.procs[i].cd.type)
        s2 == createPeerConnection(s1, Len(s1.streams))
        key == w.nextKey
        s3 == [s2 EXCEPT !.callIdRef = key, !.pcs[s2.peerConnection].key = key]
    IN  initiateCatch([w EXCEPT !.party[p] = s3, !.nextKey = key + 1], p, i)

\* initiateCall up to set(calls/{id}/offer) (lines 698-706), rejected
initiateOfferDenied(w, p, i) ==
    LET pc == w.party[p].procs[i].pc
    IN  initiateCatch([w EXCEPT !.party[p].pcs[pc].local = TRUE,
                                !.party[p].pcs[pc].sig = "have-local-offer"], p, i)

\* answerCall up to set(calls/{id}/answer) (lines 764-774), rejected
answerSdpDenied(w, p, i) ==
    LET pc == w.party[p].procs[i].pc
    IN  answerCatch([w EXCEPT !.party[p].pcs[pc].remote = TRUE,
                              !.party[p].pcs[pc].local = TRUE,
                              !.party[p].pcs[pc].sig = "stable"], p, i)

\* answerCall's update to accepted (lines 776-780), rejected: the writer's own
\* call-status listener sees accepted and does nothing
answerStoredDenied(w, p, i) == answerCatch(w, p, i)

\* ----- switchCamera (lines 831-895) -----------------------------------------
SwitchGuard(s) == s.localStream # 0 /\ s.streams[s.localStream].video # 0

\* lines 832-851: the guards, the current video track stopped, getUserMedia requested
switchCamera(w, p) ==
    LET s == w.party[p]
        v == s.streams[s.localStream].video
    IN  IF ~SwitchGuard(s) THEN w
        ELSE [w EXCEPT !.party[p] =
                 Spawn([s EXCEPT !.tracks[v] = StopTrack(@), !.requests = @ + 1],
                       Proc("switch", "media", 0, NullId,
                            [stream |-> s.localStream, front |-> s.isFrontCamera,
                             updated |-> 0]))]

\* lines 882-889: the local stream of the state and the facing flag
switchDone(s, i) ==
    LET cd == s.procs[i].cd
    IN  Finish([s EXCEPT !.localStream = cd.updated, !.isFrontCamera = ~cd.front], i)

\* switchMedia that builds the updated stream from both tracks of the new stream
switchMediaNewAudio(w, p, i) ==
    LET s == w.party[p]
        cd == s.procs[i].cd
        s1 == GetUserMedia(s, "video", IF cd.front THEN "environment" ELSE "user")
        newVideo == s1.streams[Len(s1.streams)].video
        s2 == [s1 EXCEPT !.streams = Append(@, [audio |-> s1.streams[Len(s1.streams)].audio,
                                                video |-> newVideo]),
                         !.procs[i].cd.updated = Len(s1.streams) + 1]
        pc == s2.peerConnection
    IN  IF pc # 0 /\ s2.pcs[pc].vsender # 0
        THEN [w EXCEPT !.party[p] = [s2 EXCEPT !.pcs[pc].vsender = newVideo,
                                               !.procs[i].at = "replace"]]
        ELSE [w EXCEPT !.party[p] = switchDone(s2, i)]

\* lines 864-880 after getUserMedia resolved: the new video track and the audio
\* track of the stream the invocation read make the updated stream; the video
\* sender, if any, gets the new track through replaceTrack
switchMedia(w, p, i) ==
    LET s == w.party[p]
        cd == s.procs[i].cd
        s1 == GetUserMedia(s, "video", IF cd.front THEN "environment" ELSE "user")
        newVideo == s1.streams[Len(s1.streams)].video
        s2 == [s1 EXCEPT !.streams = Append(@, [audio |-> s.streams[cd.stream].audio,
                                                video |-> newVideo]),
                         !.procs[i].cd.updated = Len(s1.streams) + 1]
        pc == s2.peerConnection
    IN  IF pc # 0 /\ s2.pcs[pc].vsender # 0
        THEN [w EXCEPT !.party[p] = [s2 EXCEPT !.pcs[pc].vsender = newVideo,
                                               !.procs[i].at = "replace"]]
        ELSE [w EXCEPT !.party[p] = switchDone(s2, i)]

\* ----- toggleMute / toggleVideo (lines 899-917) ------------------------------
\* toggleMute (lines 899-907): the first audio track of localStreamRef.current
toggleMute(s) ==
    IF s.localStreamRef = 0 THEN s
    ELSE LET a == s.streams[s.localStreamRef].audio
         IN  IF a = 0 THEN s
             ELSE [s EXCEPT !.tracks[a].enabled = ~s.tracks[a].enabled,
                            !.isMuted = s.tracks[a].enabled]

\* toggleVideo (lines 909-917): the first video track of localStreamRef.current
toggleVideo(s) ==
    IF s.localStreamRef = 0 THEN s
    ELSE LET v == s.streams[s.localStreamRef].video
         IN  IF v = 0 THEN s
             ELSE [s EXCEPT !.tracks[v].enabled = ~s.tracks[v].enabled,
                            !.isVideoOff = s.tracks[v].enabled]

\* ----- incoming-call effect (lines 492-511) ---------------------------------
\* the onChildAdded callback; closure is state.status of the render that subscribed
incomingChild(s, key, rec, closure) ==
    IF rec.status = "pending" /\ closure = "idle"
    THEN [s EXCEPT !.callIdRef = key, !.status = "ringing",
                   !.callData = [id |-> key, callerId |-> rec.callerId,
                                 receiverId |-> rec.receiverId, type |-> rec.type]]
    ELSE s

RECURSIVE replay(_, _, _, _)
\* onChildAdded replays the existing children, in key order, to a new subscription
replay(s, recs, key, closure) ==
    IF key > MaxCalls THEN s
    ELSE replay(IF recs[key].status = "absent" THEN s
                ELSE incomingChild(s, key, recs[key], closure),
                recs, key + 1, closure)

\* the effect re-runs when state.status changed: off(), then a new subscription
incomingEffect(w, p) ==
    LET s == w.party[p]
    IN  [w EXCEPT !.party[p] =
            replay([s EXCEPT !.subStatus = s.status, !.inbox = <<>>],
                   w.incoming[p], NullId, s.status)]

\* ----- actions --------------------------------------------------------------
\* The user invokes a command through the handlers of the committed render, and
\* React flushes the effects of a render before it handles a user event: when a
\* command runs, the incoming-call effect has run for the current status.
Rendered(p) == party[p].subStatus = party[p].status

\* A command whose guard fails returns at once: the step changes nothing.
InitiateCall(p, type) ==
    /\ Rendered(p)
    /\ party[p].status = "idle" =>
          /\ party[p].requests < MaxMedia
          /\ Len(party[p].procs) < MaxProcs
          /\ nextKey + KeysInFlight <= MaxCalls
    /\ Step(initiateCall(World, p, type),
            IF party[p].status = "idle" THEN "call" ELSE "none")

\* getUserMedia settles for initiateCall: resolved (ok) or rejected
InitiateMedia(p, i, ok) ==
    /\ At(p, i, "initiate", "media")
    /\ IF ok THEN Step(initiateMedia(World, p, i), "none")
             ELSE Step(initiateCatch(World, p, i), "fail")

\* createOffer/setLocalDescription settle: they reject on a closed connection
InitiateOffer(p, i) ==
    /\ At(p, i, "initiate", "record")
    /\ IF party[p].pcs[party[p].procs[i].pc].open
       THEN Step(initiateOffer(World, p, i), "none")
       ELSE Step(initiateCatch(World, p, i), "none")

InitiateStored(p, i) ==
    /\ At(p, i, "initiate", "stored")
    /\ Step(initiateStored(World, p, i), "none")

\* a child_added event of the incoming-call subscription: the children are
\* delivered in the order they were added
IncomingChild(p, key) ==
    /\ party[p].inbox # <<>>
    /\ key = Head(party[p].inbox)
    /\ Step([World EXCEPT !.party[p] =
                incomingChild([@ EXCEPT !.inbox = Tail(@)], key,
                              incoming[p][key], party[p].subStatus)], "none")

IncomingEffect(p) ==
    /\ party[p].subStatus # party[p].status
    /\ Step(incomingEffect(World, p), "none")

AnswerCall(p) ==
    /\ Rendered(p)
    /\ AnswerGuard(party[p]) =>
          /\ party[p].requests < MaxMedia
          /\ Len(party[p].procs) < MaxProcs
    /\ Step(answerCall(World, p), IF AnswerGuard(party[p]) THEN "answer" ELSE "none")

AnswerMedia(p, i, ok) ==
    /\ At(p, i, "answer", "media")
    /\ IF ok THEN Step(answerMedia(World, p, i), "none")
             ELSE Step(answerCatch(World, p, i), "fail")

AnswerOffer(p, i) ==
    /\ At(p, i, "answer", "offer")
    /\ Step(answerOffer(World, p, i), "none")

\* setRemoteDescription/createAnswer/setLocalDescription settle: they reject on a
\* closed connection
AnswerSdp(p, i) ==
    /\ At(p, i, "answer", "sdp")
    /\ IF party[p].pcs[party[p].procs[i].pc].open
       THEN Step(answerSdp(World, p, i), "none")
       ELSE Step(answerCatch(World, p, i), "none")

AnswerStored(p, i) ==
    /\ At(p, i, "answer", "answer")
    /\ Step(answerStored(World, p, i), "none")

AnswerAccepted(p, i) ==
    /\ At(p, i, "answer", "accepted")
    /\ Step(answerAccepted(World, p, i), "none")

RejectCall(p) ==
    /\ Rendered(p)
    /\ RejectGuard(party[p]) => Len(party[p].procs) < MaxProcs
    /\ Step(rejectCall(World, p), IF RejectGuard(party[p]) THEN "reject" ELSE "none")

\* the endCall of the current render
EndCall(p) ==
    /\ Rendered(p)
    /\ EndCallWrites(party[p], party[p].callData) => Len(party[p].procs) < MaxProcs
    /\ Step(endCall(World, p, party[p].callData),
            IF endCall(World, p, party[p].callData) = World THEN "none" ELSE "end")

\* endCall / rejectCall resumed after their update: cleanup
UpdateDone(p, i) ==
    /\ At(p, i, "end", "update") \/ At(p, i, "reject", "update")
    /\ Step([World EXCEPT !.party[p] = cleanup(Finish(@, i))], "none")

\* the call-status subscription delivers a value on which its callback acts; the
\* subscription is made in the effect flush that also re-runs the incoming-call
\* effect
StatusValue(p) ==
    /\ Rendered(p)
    /\ StatusWatched(party[p])
    /\ LET cd == party[p].callData
           data == incoming[StatusPath(p, cd)][cd.id]
       IN  /\ data.status \in {"absent", "ended", "rejected"}
           /\ Step([World EXCEPT !.party[p] = statusValue(@, data)], "none")

\* the answer subscription delivers the current value after a write
AnswerValue(p, i) ==
    /\ i \in DOMAIN party[p].answerSubs
    /\ Len(party[p].procs) < MaxProcs
    /\ LET sub == party[p].answerSubs[i]
       IN  /\ sub.seen < Len(answer[sub.key])
           /\ Step([World EXCEPT !.party[p] =
                       answerValue([@ EXCEPT !.answerSubs[i].seen = Len(answer[sub.key])],
                                   i)], "none")

\* a candidate subscription delivers its next child
CandidateChild(p, i) ==
    /\ i \in DOMAIN party[p].candSubs
    /\ LET sub == party[p].candSubs[i]
       IN  /\ sub.next <= Len(candidates[sub.key][sub.from])
           /\ Step([World EXCEPT !.party[p] =
                       handleCandidate([@ EXCEPT !.candSubs[i].next = sub.next + 1],
                                       candidates[sub.key][sub.from][sub.next])],
                   "none")

DrainResume(p, i) ==
    /\ At(p, i, "drain", "loop")
    /\ Step([World EXCEPT !.party[p] = drainResume(@, i)], "none")

\* an open connection with a local description gathers a candidate
PcIceCandidate(p, j, ok) ==
    /\ j \in DOMAIN party[p].pcs
    /\ party[p].pcs[j].open
    /\ party[p].pcs[j].local
    /\ party[p].pcs[j].emitted < MaxCands
    /\ party[p].callIdRef # NullId =>
          Len(candidates[party[p].callIdRef][p]) < MaxCands
    /\ Step(onicecandidate(World, p, j, ok), IF ok THEN "ice" ELSE "bad")

Negotiated(pc) == pc.open /\ pc.local /\ pc.remote

\* both ends hold both descriptions: the connection gets established
PcConnected(p, j) ==
    /\ j \in DOMAIN party[p].pcs
    /\ Negotiated(party[p].pcs[j])
    /\ party[p].pcs[j].conn = "new"
    /\ \E k \in DOMAIN party[Other(p)].pcs : Negotiated(party[Other(p)].pcs[k])
    /\ Step(onconnectionstatechange(
                oniceconnectionstatechange(World, p, j, "connected"), p, j, "connected"),
            "none")

\* an established connection is lost
PcDisconnected(p, j) ==
    /\ j \in DOMAIN party[p].pcs
    /\ party[p].pcs[j].open
    /\ party[p].pcs[j].conn = "connected"
    /\ Step(onconnectionstatechange(
                oniceconnectionstatechange(World, p, j, "disconnected"),
                p, j, "disconnected"), "drop")

\* the ICE agent of a negotiated connection gives up.  In a browser that
\* implements connectionState the connection state becomes failed in the same
\* task (coupled); in one that does not, only the ICE event is raised.
PcIceFailed(p, j, coupled) ==
    /\ j \in DOMAIN party[p].pcs
    /\ Negotiated(party[p].pcs[j])
    /\ party[p].pcs[j].ice # "failed"
    /\ LET w1 == oniceconnectionstatechange(World, p, j, "failed")
       IN  Step(IF coupled THEN onconnectionstatechange(w1, p, j, "failed") ELSE w1,
                "icefail")

\* after a failure the ICE agent checks again (a further remote candidate, the
\* network coming back)
PcIceRetry(p, j) ==
    /\ j \in DOMAIN party[p].pcs
    /\ party[p].pcs[j].open
    /\ party[p].pcs[j].ice = "failed"
    /\ Step(oniceconnectionstatechange(World, p, j, "checking"), "icefail")

\* the interval callback of startDurationTimer (lines 621-623)
Tick(p) ==
    /\ party[p].timers > 0
    /\ party[p].callDuration < MaxTicks
    /\ Step([World EXCEPT !.party[p].callDuration = @ + 1], "tick")

SwitchCamera(p) ==
    /\ Rendered(p)
    /\ SwitchGuard(party[p]) =>
          /\ party[p].requests < MaxMedia
          /\ Len(party[p].procs) < MaxProcs
    /\ Step(switchCamera(World, p), IF SwitchGuard(party[p]) THEN "switch" ELSE "none")

\* getUserMedia settles for switchCamera; a rejection is caught and logged
SwitchMedia(p, i, ok) ==
    /\ At(p, i, "switch", "media")
    /\ IF ok THEN Step(switchMedia(World, p, i), "none")
             ELSE Step([World EXCEPT !.party[p] = Finish(@, i)], "fail")

SwitchReplaced(p, i) ==
    /\ At(p, i, "switch", "replace")
    /\ Step([World EXCEPT !.party[p] = switchDone(@, i)], "none")

ToggleMute(p) ==
    /\ Rendered(p)
    /\ Step([World EXCEPT !.party[p] = toggleMute(@)],
            IF toggleMute(party[p]) = party[p] THEN "none" ELSE "toggle")

ToggleVideo(p) ==
    /\ Rendered(p)
    /\ Step([World EXCEPT !.party[p] = toggleVideo(@)],
            IF toggleVideo(party[p]) = party[p] THEN "none" ELSE "toggle")

\* the server rejects a write (security rules, lost session)
EndCallDenied(p) ==
    /\ Rendered(p)
    /\ EndCallWrites(party[p], party[p].callData)
    /\ Step(endCallDenied(World, p, party[p].callData), "deny")

RejectCallDenied(p) ==
    /\ Rendered(p)
    /\ RejectGuard(party[p])
    /\ Step(rejectCallDenied(World, p), "deny")

InitiateRecordDenied(p, i) ==
    /\ At(p, i, "initiate", "media")
    /\ Step(initiateRecordDenied(World, p, i), "deny")

InitiateOfferDenied(p, i) ==
    /\ At(p, i, "initiate", "record")
    /\ party[p].pcs[party[p].procs[i].pc].open
    /\ Step(initiateOfferDenied(World, p, i), "deny")

AnswerSdpDenied(p, i) ==
    /\ At(p, i, "answer", "sdp")
    /\ party[p].pcs[party[p].procs[i].pc].open
    /\ Step(answerSdpDenied(World, p, i), "deny")

AnswerStoredDenied(p, i) ==
    /\ At(p, i, "answer", "answer")
    /\ Step(answerStoredDenied(World, p, i), "deny")

\* ----- specifications ---------------------------------------------------------
NoEvents == [call |-> 0, answer |-> 0, reject |-> 0, end |-> 0, fail |-> 0,
             ice |-> 0, drop |-> 0, tick |-> 0, switch |-> 0, deny |-> 0,
             icefail |-> 0, toggle |-> 0, bad |-> 0]

InitWith(b) ==
    /\ party = [p \in Parties |-> InitParty]
    /\ incoming = [p \in Parties |-> [k \in Keys |-> NoRec]]
    /\ offer = [k \in Keys |-> <<>>]
    /\ answer = [k \in Keys |-> <<>>]
    /\ candidates = [k \in Keys |-> [p \in Parties |-> <<>>]]
    /\ nextKey = 1
    /\ budget = b

Procs == 1 .. MaxProcs
Objs == 1 .. (MaxMedia + 1)

Initiate ==
    \/ \E p \in Callers, t \in CallTypes : InitiateCall(p, t)
    \/ \E p \in Parties, i \in Procs, ok \in BOOLEAN : InitiateMedia(p, i, ok)
    \/ \E p \in Parties, i \in Procs : InitiateOffer(p, i)
    \/ \E p \in Parties, i \in Procs : InitiateStored(p, i)
    \/ \E p \in Parties, k \in Keys : IncomingChild(p, k)
    \/ \E p \in Parties : IncomingEffect(p)

Answer ==
    \/ \E p \in Parties : AnswerCall(p)
    \/ \E p \in Parties, i \in Procs, ok \in BOOLEAN : AnswerMedia(p, i, ok)
    \/ \E p \in Parties, i \in Procs : AnswerOffer(p, i)
    \/ \E p \in Parties, i \in Procs : AnswerSdp(p, i)
    \/ \E p \in Parties, i \in Procs : AnswerStored(p, i)
    \/ \E p \in Parties, i \in Procs : AnswerAccepted(p, i)
    \/ \E p \in Parties, i \in Objs : AnswerValue(p, i)

Hangup ==
    \/ \E p \in Parties : EndCall(p)
    \/ \E p \in Parties, i \in Procs : UpdateDone(p, i)
    \/ \E p \in Parties : StatusValue(p)

Reject == \E p \in Parties : RejectCall(p)

Ice ==
    \/ \E p \in Parties, j \in Objs, ok \in BOOLEAN : PcIceCandidate(p, j, ok)
    \/ \E p \in Parties, i \in Objs : CandidateChild(p, i)
    \/ \E p \in Parties, i \in Procs : DrainResume(p, i)

Gather == \E p \in Parties, j \in Objs, ok \in BOOLEAN : PcIceCandidate(p, j, ok)

Established == \E p \in Parties, j \in Objs : PcConnected(p, j)

Connection ==
    \/ Established
    \/ \E p \in Parties, j \in Objs : PcDisconnected(p, j)

IceState ==
    \/ \E p \in Parties, j \in Objs, coupled \in BOOLEAN : PcIceFailed(p, j, coupled)
    \/ \E p \in Parties, j \in Objs : PcIceRetry(p, j)

Denied ==
    \/ \E p \in Parties : EndCallDenied(p)
    \/ \E p \in Parties : RejectCallDenied(p)
    \/ \E p \in Parties, i \in Procs : InitiateRecordDenied(p, i)
    \/ \E p \in Parties, i \in Procs : InitiateOfferDenied(p, i)
    \/ \E p \in Parties, i \in Procs : AnswerSdpDenied(p, i)
    \/ \E p \in Parties, i \in Procs : AnswerStoredDenied(p, i)

Controls ==
    \/ \E p \in Parties : ToggleMute(p)
    \/ \E p \in Parties : ToggleVideo(p)

Timer == \E p \in Parties : Tick(p)

Camera ==
    \/ \E p \in Parties : SwitchCamera(p)
    \/ \E p \in Parties, i \in Procs, ok \in BOOLEAN : SwitchMedia(p, i, ok)
    \/ \E p \in Parties, i \in Procs : SwitchReplaced(p, i)

\* One call with every command: the life cycle of a call.
Init == InitWith([NoEvents EXCEPT !.call = 1, !.answer = 1, !.reject = 1, !.end = 1,
                                  !.fail = 1, !.drop = 1])
Next == Initiate \/ Answer \/ Hangup \/ Reject \/ Connection
Spec == Init /\ [][Next]_vars

\* One call in which the callee may press answer twice.
InitDup == InitWith([NoEvents EXCEPT !.call = 1, !.answer = 2, !.end = 1, !.fail = 1])
NextDup == Initiate \/ Answer \/ Hangup
SpecDup == InitDup /\ [][NextDup]_vars

\* One call with ICE candidates trickling in both directions.
InitIce == InitWith([NoEvents EXCEPT !.call = 1, !.answer = 2, !.ice = 2])
NextIce == Initiate \/ Answer \/ Ice
SpecIce == InitIce /\ [][NextIce]_vars

\* One call with ICE candidates in which every pending continuation, callback
\* and subscription delivery eventually runs (the event loop leaves no settled
\* promise and no delivered event unhandled); commands and failures stay optional.
InitLive == InitWith([NoEvents EXCEPT !.call = 1, !.answer = 1, !.ice = 2, !.end = 1])
NextLive == Initiate \/ Answer \/ Hangup \/ Ice
Progress ==
    \/ \E p \in Parties, i \in Procs : InitiateMedia(p, i, TRUE)
    \/ \E p \in Parties, i \in Procs : InitiateOffer(p, i)
    \/ \E p \in Parties, i \in Procs : InitiateStored(p, i)
    \/ \E p \in Parties, k \in Keys : IncomingChild(p, k)
    \/ \E p \in Parties : IncomingEffect(p)
    \/ \E p \in Parties, i \in Procs : AnswerMedia(p, i, TRUE)
    \/ \E p \in Parties, i \in Procs : AnswerOffer(p, i)
    \/ \E p \in Parties, i \in Procs : AnswerSdp(p, i)
    \/ \E p \in Parties, i \in Procs : AnswerStored(p, i)
    \/ \E p \in Parties, i \in Procs : AnswerAccepted(p, i)
    \/ \E p \in Parties, i \in Objs : AnswerValue(p, i)
    \/ \E p \in Parties, i \in Procs : UpdateDone(p, i)
    \/ \E p \in Parties : StatusValue(p)
    \/ \E p \in Parties, i \in Objs : CandidateChild(p, i)
    \/ \E p \in Parties, i \in Procs : DrainResume(p, i)
SpecLive == InitLive /\ [][NextLive]_vars /\ WF_vars(Progress)

\* Two calls of the same caller, the first of which may be hung up.
InitTwo == InitWith([NoEvents EXCEPT !.call = 2, !.end = 1])
NextTwo == Initiate \/ Hangup
SpecTwo == InitTwo /\ [][NextTwo]_vars

\* Two calls of the same caller in which media acquisition may fail.
InitFail == InitWith([NoEvents EXCEPT !.call = 2, !.end = 1, !.fail = 1])
SpecFail == InitFail /\ [][NextTwo]_vars

\* One call in which the server may reject one signaling write.
InitDeny == InitWith([NoEvents EXCEPT !.call = 1, !.answer = 1, !.reject = 1, !.end = 1,
                                      !.deny = 1])
NextDeny == Initiate \/ Answer \/ Hangup \/ Reject \/ Denied
SpecDeny == InitDeny /\ [][NextDeny]_vars

\* One call whose connections may fail at the ICE layer.
InitLoss == InitWith([NoEvents EXCEPT !.call = 1, !.answer = 1, !.icefail = 3])
NextLoss == Initiate \/ Answer \/ Established \/ IceState
SpecLoss == InitLoss /\ [][NextLoss]_vars

\* One call that is answered and talked over while the duration timers tick.
InitTalk == InitWith([NoEvents EXCEPT !.call = 1, !.answer = 1, !.end = 1, !.tick = 2])
NextTalk == Initiate \/ Answer \/ Hangup \/ Established \/ Timer
SpecTalk == InitTalk /\ [][NextTalk]_vars

\* One call in which each party may switch its camera.
InitCam == InitWith([NoEvents EXCEPT !.call = 1, !.answer = 1, !.switch = 2,
                                     !.end = 1, !.fail = 1])
NextCam == Initiate \/ Answer \/ Hangup \/ Established \/ Camera
SpecCam == InitCam /\ [][NextCam]_vars

\* One call that the callee declines, in which a party may switch its camera.
InitDecline == InitWith([NoEvents EXCEPT !.call = 1, !.reject = 1, !.end = 1,
                                         !.switch = 1])
NextDecline == Initiate \/ Hangup \/ Reject \/ Camera
SpecDecline == InitDecline /\ [][NextDecline]_vars

\* One call in which the caller may switch its camera and the parties may toggle
\* their microphone and camera.
InitMute == InitWith([NoEvents EXCEPT !.call = 1, !.switch = 1, !.toggle = 2,
                                      !.answer = 1])
NextMute == Initiate \/ Answer \/ Camera \/ Controls
SpecMute == InitMute /\ [][NextMute]_vars

\* Two calls of the same caller whose connections gather candidates.
InitGather == InitWith([NoEvents EXCEPT !.call = 2, !.end = 1, !.ice = 2])
NextGather == Initiate \/ Hangup \/ Gather
SpecGather == InitGather /\ [][NextGather]_vars

\* Two calls of the same caller with ICE candidates, the first of which may be
\* answered and hung up.
InitAgain == InitWith([NoEvents EXCEPT !.call = 2, !.answer = 1, !.ice = 1, !.end = 1])
NextAgain == Initiate \/ Answer \/ Hangup \/ Ice
SpecAgain == InitAgain /\ [][NextAgain]_vars

\* One call with ICE candidates of which one cannot be applied by the remote
\* agent; pending continuations, callbacks and deliveries eventually run.
InitSkip == InitWith([NoEvents EXCEPT !.call = 1, !.answer = 1, !.ice = 1, !.bad = 1])
SpecSkip == InitSkip /\ [][NextIce]_vars /\ WF_vars(Progress)

\* One call in which a connection gathers three candidates.
InitOrder == InitWith([NoEvents EXCEPT !.call = 1, !.answer = 1, !.ice = 3])
SpecOrder == InitOrder /\ [][NextIce]_vars

\* Two calls of the same caller, the first of which may be hung up by the caller
\* and declined by the callee; pending continuations, callbacks and deliveries
\* eventually run.
InitBusy == InitWith([NoEvents EXCEPT !.call = 2, !.end = 1, !.reject = 1])
NextBusy == Initiate \/ Hangup \/ Reject
SpecBusy == InitBusy /\ [][NextBusy]_vars /\ WF_vars(Progress)

\* Two calls of one caller, with a camera switch and a hang-up.
InitFacing == InitWith([NoEvents EXCEPT !.call = 2, !.switch = 1, !.end = 1])
NextFacing == Initiate \/ Hangup \/ Camera
SpecFacing == InitFacing /\ [][NextFacing]_vars

\* ----- claims ------------------------------------------------------------------
\* the state cleanup leaves: running it again would change nothing
Cleaned(s) == cleanup(s) = s

\* nothing of the hook is suspended at an await
Quiet(s) == s.procs = <<>>

\* C1: for every completed or aborted call, once cleanup has run the party holds
\* no live local media track: whenever a party that acquired media is in the state
\* cleanup leaves, with no invocation in flight, none of its tracks is live.
C1_NoLiveTrackAfterCleanup ==
    \A p \in Parties :
        (party[p].tracks # <<>> /\ Cleaned(party[p]) /\ Quiet(party[p]))
            => LiveTracks(party[p]) = {}

\* the addIceCandidate calls a party has made: <<connection, position in its log>>
Applications(s) ==
    UNION {{<<j, i>> : i \in DOMAIN s.pcs[j].applied} : j \in DOMAIN s.pcs}

C2_Applied(s) ==
    /\ \A x \in Applications(s), y \in Applications(s) :
          s.pcs[x[1]].applied[x[2]].c = s.pcs[y[1]].applied[y[2]].c => x = y
    /\ \A x \in Applications(s) : s.pcs[x[1]].applied[x[2]].rd
    /\ \A x \in Applications(s) : \A i \in DOMAIN s.candidateQueue :
          s.candidateQueue[i] # s.pcs[x[1]].applied[x[2]].c
    /\ \A i \in DOMAIN s.candidateQueue, k \in DOMAIN s.candidateQueue :
          s.candidateQueue[i] = s.candidateQueue[k] => i = k

C2_QueueStep(s, n) ==
    /\ n.candidateQueue # s.candidateQueue =>
          \/ \E c \in Range(n.candidateQueue) :
                /\ n.candidateQueue = Append(s.candidateQueue, c)
                /\ s.peerConnection # 0 /\ ~s.pcs[s.peerConnection].remote
                /\ n.pcs = s.pcs
          \/ /\ s.candidateQueue # <<>>
             /\ n.candidateQueue = Tail(s.candidateQueue)
             /\ n.peerConnection # 0 =>
                   n.pcs[n.peerConnection].applied =
                       Append(s.pcs[n.peerConnection].applied,
                              [c |-> Head(s.candidateQueue), rd |-> TRUE])

\* C2: a candidate received while the connection has no remote description is
\* appended to the queue; every candidate is passed to addIceCandidate at most
\* once and only on a connection whose remote description is set; and the queue
\* is flushed from its head, one addIceCandidate call per queued candidate.
C2_CandidateQueue ==
    /\ [](\A p \in Parties : C2_Applied(party[p]))
    /\ [][\A p \in Parties : C2_QueueStep(party[p], party'[p])]_vars

CandSlots == 1 .. MaxCands

\* the n-th candidate of party f for call k has been passed, at the other party,
\* to addIceCandidate of a connection holding a remote description
C3_Applied(k, f, n) ==
    \E x \in Applications(party[Other(f)]) :
        LET e == party[Other(f)].pcs[x[1]].applied[x[2]]
        IN  e.c = candidates[k][f][n] /\ e.rd

\* the other party is in call k with a connection whose remote description is set
C3_Ready(k, f) ==
    LET s == party[Other(f)]
    IN  /\ s.callIdRef = k
        /\ s.peerConnection # 0
        /\ s.pcs[s.peerConnection].remote

\* C3: no remote candidate is dropped: a candidate published for a call whose
\* receiving party holds a connection with its remote description set is
\* eventually passed to addIceCandidate, unless that party's call ends first.
C3_CandidateEventuallyApplied ==
    \A k \in Keys \ {NullId}, f \in Parties, n \in CandSlots :
        (n <= Len(candidates[k][f]) /\ C3_Ready(k, f))
            ~> (n <= Len(candidates[k][f]) /\
                   (C3_Applied(k, f, n) \/ party[Other(f)].callIdRef # k))

\* C3 witness: a candidate of the callee reached the caller's addIceCandidate
\* through the queue (it arrived before the answer) while the call is still on.
C3_Witness ==
    \E k \in Keys \ {NullId}, n \in CandSlots :
        /\ n <= Len(candidates[k]["B"])
        /\ C3_Ready(k, "B")
        /\ C3_Applied(k, "B", n)
        /\ \E i \in DOMAIN party["A"].procs : party["A"].procs[i].op = "drain"

\* C4: answerCall and rejectCall are no-ops unless the party's status is exactly
\* ringing: invoked in any other status they change neither the hook nor the store.
C4_NoOpUnlessRinging ==
    [][\A p \in Parties :
          (party[p].status # "ringing" /\ (AnswerCall(p) \/ RejectCall(p)))
              => UNCHANGED <<party, store>>]_vars

\* C5: a party's status leaves idle only by its own initiateCall (to calling) or by
\* the incoming-call subscription observing a pending record (to ringing).
C5_IdleLeftOnlyByCallOrPending ==
    [][\A p \in Parties :
          (party[p].status = "idle" /\ party'[p].status # "idle") =>
              \/ /\ party'[p].status = "calling"
                 /\ \E t \in CallTypes : InitiateCall(p, t)
              \/ /\ party'[p].status = "ringing"
                 /\ IncomingEffect(p) \/ \E k \in Keys : IncomingChild(p, k)
                 /\ incoming[p][party'[p].callIdRef].status = "pending"]_vars

\* C6: for any call id the offer is written exactly once and the answer exactly
\* once: no call id ever has a second offer or a second answer written.
C6_OneOfferOneAnswer ==
    \A k \in Keys \ {NullId} : Len(offer[k]) <= 1 /\ Len(answer[k]) <= 1

\* C7: switchCamera replaces only the video track: no step of it writes an offer,
\* an answer or anything else to the store or changes a connection's descriptions
\* or its audio sender; the stream it publishes has the audio track object of the
\* stream it replaces and another video track; and a video sender it changes is
\* given a live video track (replaceTrack).
C7_SwitchOnlyVideo ==
    [][\A p \in Parties :
          (\/ SwitchCamera(p)
           \/ \E i \in Procs, ok \in BOOLEAN : SwitchMedia(p, i, ok)
           \/ \E i \in Procs : SwitchReplaced(p, i)) =>
              LET s == party[p]
                  n == party'[p]
              IN  /\ UNCHANGED store
                  /\ DOMAIN n.pcs = DOMAIN s.pcs
                  /\ \A j \in DOMAIN s.pcs :
                        /\ n.pcs[j].local = s.pcs[j].local
                        /\ n.pcs[j].remote = s.pcs[j].remote
                        /\ n.pcs[j].sig = s.pcs[j].sig
                        /\ n.pcs[j].asender = s.pcs[j].asender
                        /\ n.pcs[j].vsender # s.pcs[j].vsender =>
                              /\ n.tracks[n.pcs[j].vsender].kind = "video"
                              /\ n.tracks[n.pcs[j].vsender].live
                  /\ (s.localStream # 0 /\ n.localStream # s.localStream) =>
                        /\ n.streams[n.localStream].audio = s.streams[s.localStream].audio
                        /\ n.streams[n.localStream].video # s.streams[s.localStream].video
                        /\ n.tracks[n.streams[n.localStream].video].kind = "video"]_vars

\* C7 witness: a party in a call has switched its camera: the stream it shows is
\* not the one getMediaStream acquired, and the video sender of its connection
\* carries that stream's video track.
C7_Witness ==
    \E p \in Parties :
        LET s == party[p]
        IN  /\ s.localStreamRef # 0 /\ s.localStream # 0
            /\ s.localStream # s.localStreamRef
            /\ s.peerConnection # 0
            /\ s.pcs[s.peerConnection].vsender = s.streams[s.localStream].video
            /\ s.streams[s.localStream].audio = s.streams[s.localStreamRef].audio
            /\ ~s.isFrontCamera

\* C8: cleanup is idempotent: in every reachable state, a second invocation right
\* after a first leaves exactly the state the first left (no track gets another
\* stop() call, no connection another close(): both are counted in the state).
C8_CleanupIdempotent ==
    \A p \in Parties : cleanup(cleanup(party[p])) = cleanup(party[p])

\* C8 witness: a cleanup has already run on a call that held
\* media and a connection, and the cleanup of the same party's endCall or
\* rejectCall is still to come.
C8_Witness ==
    \E p \in Parties : \E i \in DOMAIN party[p].procs :
        /\ party[p].procs[i].op \in {"end", "reject"}
        /\ Cleaned(Finish(party[p], i))
        /\ \E j \in DOMAIN party[p].pcs : party[p].pcs[j].closes = 1
        /\ \E j \in DOMAIN party[p].tracks : party[p].tracks[j].stops = 1
\* the call a party is in, as the hook holds it
C9_Call(s) == <<s.status, s.callData, s.callIdRef>>

\* the pending records of a party's incoming list
C9_Pending(p) == {k \in Keys : incoming[p][k].status = "pending"}

\* C9: a party has at most one active call: a pending record delivered while it
\* is calling, ringing or connected changes nothing of its call, and of several
\* pending records that one subscription delivers back-to-back to an idle party
\* only the first starts ringing.
C9_OneActiveCall ==
    [][\A p \in Parties :
          ((\E k \in Keys : IncomingChild(p, k)) \/ IncomingEffect(p)) =>
              /\ party[p].status \in {"calling", "ringing", "connected"} =>
                    C9_Call(party'[p]) = C9_Call(party[p])
              /\ (party[p].status = "idle" /\ party'[p].status = "ringing") =>
                    \A k \in C9_Pending(p) : party'[p].callIdRef <= k]_vars

\* C10_Late: the step is the delivery, to party p, of an answer or candidate event
\* of a call other than the one p is in
C10_Late(p) ==
    \/ \E i \in Objs : /\ AnswerValue(p, i)
                        /\ party[p].answerSubs[i].key # party[p].callIdRef
    \/ \E i \in Objs : /\ CandidateChild(p, i)
                        /\ party[p].candSubs[i].key # party[p].callIdRef

\* what a late event may not touch: everything but the subscriptions' own cursors
C10_State(s) == [s EXCEPT !.answerSubs = <<>>, !.candSubs = <<>>]

\* C10: after cleanup, a late answer or candidate event of the finished call
\* changes no state, raises no error, and is never applied to the connection of
\* another call.
C10_LateEventsInert ==
    /\ [](\A p \in Parties :
            /\ ~party[p].uncaught
            /\ \A x \in Applications(party[p]) :
                  party[p].pcs[x[1]].applied[x[2]].c.key = party[p].pcs[x[1]].key)
    /\ [][\A p \in Parties :
            C10_Late(p) => C10_State(party'[p]) = C10_State(party[p])]_vars

\* invocation i of party p was cancelled while suspended: an initiateCall whose
\* party is back in idle (before callData is set only the party's own endCall or
\* rejectCall runs cleanup), or an answerCall whose record the party's own
\* rejectCall has marked rejected
C11_Cancelled(p, i) ==
    LET pr == party[p].procs[i]
    IN  \/ pr.op = "initiate" /\ party[p].status = "idle"
        \/ pr.op = "answer" /\ incoming[p][pr.cd.id].status = "rejected"

\* the step resumes invocation i of party p after an await
C11_Resumes(p, i) ==
    \/ \E ok \in BOOLEAN : InitiateMedia(p, i, ok)
    \/ InitiateOffer(p, i)
    \/ InitiateStored(p, i)
    \/ \E ok \in BOOLEAN : AnswerMedia(p, i, ok)
    \/ AnswerOffer(p, i)
    \/ AnswerSdp(p, i)
    \/ AnswerStored(p, i)
    \/ AnswerAccepted(p, i)

\* C11: an initiateCall or answerCall that resumes after the party's endCall or
\* rejectCall cancelled its call writes no pending record, offer, answer or
\* accepted status and installs no answer or candidate subscription.
C11_CancelledWritesNothing ==
    [][\A p \in Parties, i \in Procs :
          (i \in DOMAIN party[p].procs /\ C11_Cancelled(p, i) /\ C11_Resumes(p, i)) =>
              /\ incoming' = incoming /\ offer' = offer /\ answer' = answer
              /\ party'[p].answerSubs = party[p].answerSubs
              /\ party'[p].candSubs = party[p].candSubs]_vars

\* the peer connections party p created for call k
C12_Connections(p, k) == {j \in DOMAIN party[p].pcs : party[p].pcs[j].key = k}

\* C12: duplicate invocations do not double-apply a transition: for every call id
\* a party acquires media and creates a peer connection once (the two happen in
\* one step of initiateCall and answerCall), and one offer and one answer are
\* written.
C12_NoDoubleApply ==
    \A k \in Keys \ {NullId} :
        /\ \A p \in Parties : Cardinality(C12_Connections(p, k)) <= 1
        /\ Len(offer[k]) <= 1
        /\ Len(answer[k]) <= 1

C14_Released(s) ==
    /\ s.status = "idle"
    /\ LiveTracks(s) = {}
    /\ s.peerConnection = 0
    /\ \A j \in DOMAIN s.pcs : ~s.pcs[j].open
    /\ ~s.durationInterval

\* the step is a signaling write of party p that the server rejects
C14_DeniedStep(p) ==
    \/ EndCallDenied(p)
    \/ RejectCallDenied(p)
    \/ \E i \in Procs : InitiateRecordDenied(p, i) \/ InitiateOfferDenied(p, i)
    \/ \E i \in Procs : AnswerSdpDenied(p, i) \/ AnswerStoredDenied(p, i)

\* C14: a failed offer, answer or status write aborts the call and runs cleanup:
\* after the step in which the write fails the party is idle with its tracks
\* stopped, its connection closed and its timer cleared, or the endCall of the
\* error path is awaiting its own status update, after which cleanup runs.
C14_WriteFailureCleansUp ==
    [][\A p \in Parties :
          C14_DeniedStep(p) =>
              \/ C14_Released(party'[p])
              \/ \E j \in DOMAIN party'[p].procs : party'[p].procs[j].op = "end"]_vars

\* C15: when answerCall finds the offer absent, the answer flow aborts and
\* cleanup runs: after that step the party is idle with the media and the peer
\* connection of the answerCall released (or an endCall is awaiting its status
\* update before cleanup); it does not stay in ringing holding them.
C15_OfferAbsentAborts ==
    [][\A p \in Parties, i \in Procs :
          (AnswerOffer(p, i) /\ offer[party[p].procs[i].key] = <<>>) =>
              \/ C14_Released(party'[p])
              \/ \E j \in DOMAIN party'[p].procs : party'[p].procs[j].op = "end"]_vars

\* party p is not itself hanging up or rejecting
C16_Passive(p) ==
    \A j \in DOMAIN party[p].procs : party[p].procs[j].op \notin {"end", "reject"}

\* C16: whenever a party in a call, not hanging up itself, observes the call's
\* record ended, rejected or removed, it runs cleanup and is then idle with all
\* its resources released: every track stopped, every peer connection closed,
\* the timer cleared.
C16_RemoteTerminationCleansUp ==
    [][\A p \in Parties :
          (StatusValue(p) /\ C16_Passive(p)) =>
              /\ party'[p] = cleanup(party[p])
              /\ C14_Released(party'[p])]_vars

\* the parties under whose incoming list the record of p's current call exists
C17_RecordOwners(p) ==
    {q \in Parties :
        LET rec == incoming[q][party[p].callIdRef]
        IN  /\ party[p].callIdRef # NullId
            /\ rec.status # "absent"
            /\ p \in {rec.callerId, rec.receiverId}}

\* C17: endCall invoked while the party is calling or connected, from the moment
\* the record of its call exists, writes status ended with endedAt to that record.
C17_EndCallWritesEnded ==
    [][\A p \in Parties :
          (EndCall(p) /\ party[p].status \in {"calling", "connected"}) =>
              \A q \in C17_RecordOwners(p) :
                  /\ incoming'[q][party[p].callIdRef].status = "ended"
                  /\ incoming'[q][party[p].callIdRef].endedAt]_vars

\* the connections of party p for call k on which restartIce was invoked
C18_Restarted(p, k) ==
    {j \in DOMAIN party[p].pcs : party[p].pcs[j].key = k /\ party[p].pcs[j].restarts > 0}

\* C18: per call, a party invokes restartIce at most once.
C18_OneIceRestart ==
    \A p \in Parties, k \in Keys \ {NullId} :
        /\ Cardinality(C18_Restarted(p, k)) <= 1
        /\ \A j \in C18_Restarted(p, k) : party[p].pcs[j].restarts <= 1

\* C19: when a party's peer connection reports disconnected or failed, the party
\* writes status ended with endedAt to the record of its call.
C19_FailureWritesEnded ==
    [][\A p \in Parties, j \in Objs :
          (PcDisconnected(p, j) \/ PcIceFailed(p, j, TRUE)) =>
              \A q \in C17_RecordOwners(p) :
                  /\ incoming'[q][party[p].callIdRef].status = "ended"
                  /\ incoming'[q][party[p].callIdRef].endedAt]_vars

\* the step in which initiateCall writes its record: a pending record with the
\* kind, the caller and the receiver, under the receiver's incoming list
C20_Created(p, i) ==
    InitiateMedia(p, i, TRUE) =>
        LET cd == party[p].procs[i].cd
        IN  /\ party'[p].callIdRef = nextKey
            /\ incoming'[cd.receiverId][nextKey] =
                   [status |-> "pending", callerId |-> p, receiverId |-> cd.receiverId,
                    type |-> cd.type, answeredAt |-> FALSE, endedAt |-> FALSE]

\* the step in which an initiateCall that was not hung up returns: the party is
\* calling, holds the call's data, and the offer is stored for the call id
C20_Returned(p, i) ==
    (InitiateStored(p, i) /\ party[p].status = "calling") =>
        LET cd == party[p].procs[i].cd
            k == party'[p].callIdRef
        IN  /\ party'[p].status = "calling"
            /\ k # NullId
            /\ party'[p].callData = [id |-> k, callerId |-> p,
                                     receiverId |-> cd.receiverId, type |-> cd.type]
            /\ incoming'[cd.receiverId][k].callerId = p
            /\ incoming'[cd.receiverId][k].receiverId = cd.receiverId
            /\ incoming'[cd.receiverId][k].type = cd.type
            /\ offer'[k] # <<>>
            /\ Last(offer'[k]).by = p

\* party q rings with call k and the data of its record
C20_Rings(q, k) ==
    /\ party[q].status = "ringing"
    /\ party[q].callIdRef = k
    /\ party[q].callData = [id |-> k, callerId |-> incoming[q][k].callerId,
                            receiverId |-> incoming[q][k].receiverId,
                            type |-> incoming[q][k].type]

C21_Current(p, i) ==
    /\ party[p].status = "ringing"
    /\ party[p].callIdRef # NullId
    /\ party[p].callIdRef = party[p].procs[i].key

\* answerCall writes the answer, and then the record becomes accepted
C21_Answers(p, i) ==
    /\ (AnswerSdp(p, i) /\ C21_Current(p, i) /\ party[p].pcs[party[p].procs[i].pc].open) =>
          /\ Len(answer'[party[p].callIdRef]) = Len(answer[party[p].callIdRef]) + 1
          /\ Last(answer'[party[p].callIdRef]).by = p
          /\ incoming' = incoming
    /\ (AnswerStored(p, i) /\ C21_Current(p, i)) =>
          /\ answer[party[p].callIdRef] # <<>>
          /\ incoming'[p][party[p].callIdRef].status = "accepted"
          /\ incoming'[p][party[p].callIdRef].answeredAt
          /\ answer' = answer

\* status becomes connected only in the connected event of one of the party's
\* own peer connections, with the duration at 0 and the timer started; the
\* duration changes only by the timer adding 1 or by being reset to 0
C21_Connects(p) ==
    /\ (party'[p].status = "connected" /\ party[p].status # "connected") =>
          /\ \E j \in Objs : PcConnected(p, j)
          /\ party'[p].callDuration = 0
          /\ party'[p].durationInterval
    /\ party'[p].callDuration # party[p].callDuration =>
          \/ Tick(p) /\ party[p].status = "connected"
                     /\ party'[p].callDuration = party[p].callDuration + 1
          \/ party'[p].callDuration = 0

C22_AllClosed(s) == \A j \in DOMAIN s.pcs : ~s.pcs[j].open

\* rejectCall from ringing: the record becomes rejected with endedAt, no media is
\* acquired and no connection created, and the step after the update is cleanup
C22_Receiver(p) ==
    /\ (RejectCall(p) /\ party[p].status = "ringing") =>
          /\ incoming'[p][party[p].callIdRef].status = "rejected"
          /\ incoming'[p][party[p].callIdRef].endedAt
          /\ party'[p].tracks = party[p].tracks
          /\ party'[p].pcs = party[p].pcs
    /\ \A i \in Procs :
          (UpdateDone(p, i) /\ At(p, i, "reject", "update")) =>
              /\ party'[p].status = "idle"
              /\ Cleaned([party'[p] EXCEPT !.procs = <<>>])
              /\ Len(party'[p].tracks) = Len(party[p].tracks)
              /\ Len(party'[p].pcs) = Len(party[p].pcs)

\* the caller's call-status listener sees rejected: idle, no live track, every
\* connection closed
C22_Caller(p) ==
    (/\ StatusValue(p)
     /\ party[p].callData.callerId = p
     /\ incoming[Other(p)][party[p].callData.id].status = "rejected") =>
        /\ party'[p].status = "idle"
        /\ LiveTracks(party'[p]) = {}
        /\ C22_AllClosed(party'[p])

\* C22: rejectCall from ringing writes rejected with endedAt to the call's record
\* and then runs cleanup, ending idle with no media acquired and no connection
\* created; the caller, on observing rejected, returns to idle with its tracks
\* stopped and its peer connection closed.
C22_RejectEndsBoth ==
    [][\A p \in Parties : C22_Receiver(p) /\ C22_Caller(p)]_vars

\* what a toggle must leave alone: everything but the tracks and the two flags
C23_Frame(s) ==
    [s EXCEPT !.tracks = <<>>, !.isMuted = FALSE, !.isVideoOff = FALSE]

\* the tracks of s and n differ exactly in the enabled flag of track i
C23_OnlyEnabled(s, n, i) ==
    /\ i \in DOMAIN s.tracks
    /\ n.tracks = [s.tracks EXCEPT ![i].enabled = ~s.tracks[i].enabled]

\* a toggle that acts flips the enabled flag of the audio (video) track of the
\* party's local stream and sets the flag to its negation, changes nothing else,
\* and a second toggle brings the flags back
C23_Toggle(p) ==
    /\ (ToggleMute(p) /\ party'[p] # party[p]) =>
          /\ C23_OnlyEnabled(party[p], party'[p], party[p].streams[party[p].localStream].audio)
          /\ party'[p].isMuted = ~party[p].isMuted
          /\ party'[p].isVideoOff = party[p].isVideoOff
          /\ C23_Frame(party'[p]) = C23_Frame(party[p])
          /\ toggleMute(party'[p]) = party[p]
    /\ (ToggleVideo(p) /\ party'[p] # party[p]) =>
          /\ C23_OnlyEnabled(party[p], party'[p], party[p].streams[party[p].localStream].video)
          /\ party'[p].isVideoOff = ~party[p].isVideoOff
          /\ party'[p].isMuted = party[p].isMuted
          /\ C23_Frame(party'[p]) = C23_Frame(party[p])
          /\ toggleVideo(party'[p]) = party[p]
    /\ (ToggleMute(p) \/ ToggleVideo(p)) =>
          /\ party'[Other(p)] = party[Other(p)]
          /\ UNCHANGED store

\* C23: toggleMute and toggleVideo change only the enabled flag of the local
\* audio (resp. video) track and the isMuted (resp. isVideoOff) flag; status,
\* call data, call id, peer connection, candidate queue and store are unchanged,
\* and two consecutive toggles restore the original flag values.
C23_ToggleFrame ==
    [][\A p \in Parties : C23_Toggle(p)]_vars

\* C24: every ICE candidate a party publishes is appended under its own
\* candidate sub-path of the call id for which the emitting peer connection was
\* created, never under the other party's sub-path or another call's path.
C24_OwnCandidatePath ==
    \A k \in Keys, p \in Parties : \A i \in DOMAIN candidates[k][p] :
        /\ candidates[k][p][i].from = p
        /\ party[p].pcs[candidates[k][p][i].pc].key = k

\* C25: the parties' writes to the shared record do not conflict: a terminal
\* status (ended or rejected) stored in a record is never replaced by accepted.
C25_TerminalNotAccepted ==
    [][\A q \in Parties, k \in Keys :
          incoming[q][k].status \in {"ended", "rejected"} =>
              incoming'[q][k].status # "accepted"]_vars

\* C26: the candidate queue belongs to one call: it is empty when initiateCall
\* or answerCall starts a call, and no candidate published for one call is
\* applied to a peer connection created for another call.
C26_QueuePerCall ==
    [][\A p \in Parties :
          /\ (party[p].status = "idle" /\ \E ty \in CallTypes : InitiateCall(p, ty)) =>
                party[p].candidateQueue = <<>>
          /\ (AnswerGuard(party[p]) /\ AnswerCall(p)) =>
                party[p].candidateQueue = <<>>
          /\ \A j \in DOMAIN party'[p].pcs : \A i \in DOMAIN party'[p].pcs[j].applied :
                party'[p].pcs[j].applied[i].c.key = party'[p].pcs[j].key]_vars

\* C27: whenever a record with status pending is visible under a receiver's
\* incoming list, the offer for that call id is stored, and an answerCall that
\* reads the offer of the call it rings with finds it.
C27_OfferBeforePending ==
    /\ \A q \in Parties, k \in Keys :
          incoming[q][k].status = "pending" => offer[k] # <<>>
    /\ \A p \in Parties, i \in Procs :
          (At(p, i, "answer", "offer") /\ party[p].procs[i].key # NullId) =>
              offer[party[p].procs[i].key] # <<>>

\* the event on connection j of p did not end the call: the connection is open,
\* the status and the live tracks are as before, and no record changed
C28_CallGoesOn(p, j) ==
    /\ party'[p].pcs[j].open
    /\ party'[p].status = party[p].status
    /\ LiveTracks(party'[p]) = LiveTracks(party[p])
    /\ incoming' = incoming

\* C28: a disconnected connection state does not terminate the call by itself
\* (the connection may report connected again), and after an ICE failure the
\* call is not terminated before the outcome of the restart is known.
C28_NoEscalationBeforeRecovery ==
    [][\A p \in Parties, j \in Objs :
          /\ PcDisconnected(p, j) => C28_CallGoesOn(p, j)
          /\ (\E coupled \in BOOLEAN : PcIceFailed(p, j, coupled)) =>
                C28_CallGoesOn(p, j)]_vars

\* C29: when switchCamera fails to acquire the opposite-facing camera (and the
\* call it was invoked in is still on), the video track of the local stream is
\* still live, and the local stream, the senders and the facing flag are as
\* before.
C29_FailedSwitchKeepsVideo ==
    [][\A p \in Parties, i \in Procs :
          (/\ SwitchMedia(p, i, FALSE)
           /\ party[p].localStream = party[p].procs[i].cd.stream) =>
              /\ party'[p].tracks[party[p].streams[party[p].localStream].video].live
              /\ party'[p].localStream = party[p].localStream
              /\ party'[p].pcs = party[p].pcs
              /\ party'[p].isFrontCamera = party[p].isFrontCamera]_vars

\* the addIceCandidate calls of s that were rejected
C30_Failed(s) ==
    {x \in Applications(s) :
        LET e == s.pcs[x[1]].applied[x[2]] IN ~(e.rd /\ e.c.ok)}

\* the step of p made an addIceCandidate call that was rejected
C30_FailsNow(p) == C30_Failed(party'[p]) # C30_Failed(party[p])

\* candidate c was passed to addIceCandidate by s
C30_Passed(s, c) ==
    \E x \in Applications(s) : s.pcs[x[1]].applied[x[2]].c = c

\* a rejected addIceCandidate throws nothing, leaves the call, the connections,
\* the tracks and the store as they were, and leaves the drain running while
\* candidates are queued
C30_Skipped(p) ==
    C30_FailsNow(p) =>
        /\ party'[p].uncaught = party[p].uncaught
        /\ party'[p].status = party[p].status
        /\ party'[p].callData = party[p].callData
        /\ party'[p].callIdRef = party[p].callIdRef
        /\ party'[p].peerConnection = party[p].peerConnection
        /\ party'[p].tracks = party[p].tracks
        /\ \A j \in DOMAIN party[p].pcs : party'[p].pcs[j].open = party[p].pcs[j].open
        /\ incoming' = incoming
        /\ party'[p].candidateQueue # <<>> =>
              \E i \in DOMAIN party'[p].procs : party'[p].procs[i].op = "drain"

\* C30: a candidate whose application fails is skipped without throwing: the
\* failure does not end the call and does not stop the drain, and every
\* candidate queued behind it is still passed to addIceCandidate, unless the
\* call ends first.
C30_FailedCandidateSkipped ==
    /\ [][\A p \in Parties : C30_Skipped(p)]_vars
    /\ \A p \in Parties, k \in Keys \ {NullId}, n \in CandSlots :
          (/\ n <= Len(candidates[k][Other(p)])
           /\ candidates[k][Other(p)][n] \in Range(party[p].candidateQueue)
           /\ C30_Failed(party[p]) # {}
           /\ C3_Ready(k, Other(p)))
              ~> (/\ n <= Len(candidates[k][Other(p)])
                  /\ \/ C30_Passed(party[p], candidates[k][Other(p)][n])
                     \/ party[p].callIdRef # k)

\* C30 witness: the caller's connection rejected one candidate of the callee and
\* then applied a later one, with the call still on.
C30_Witness ==
    \E j \in DOMAIN party["A"].pcs :
        LET log == party["A"].pcs[j].applied
        IN  /\ Len(log) = 2
            /\ ~log[1].c.ok
            /\ log[2].c.ok /\ log[2].rd
            /\ party["A"].pcs[j].open
            /\ party["A"].status = "calling"

\* C31: at most one duration timer exists at any time; a timer runs only while
\* the status is connected; with no timer running (so after every cleanup) the
\* duration counter is 0, so the counter of every call starts from 0.
C31_OneTimer ==
    \A p \in Parties :
        /\ party[p].timers <= 1
        /\ party[p].timers = (IF party[p].durationInterval THEN 1 ELSE 0)
        /\ party[p].timers > 0 => party[p].status = "connected"
        /\ party[p].timers = 0 => party[p].callDuration = 0

\* C31 witness: both parties' timers counted during the connected call, and both
\* are idle again after cleanup with no timer and the counter back at 0.
C31_Witness ==
    /\ budget.tick = 0
    /\ \A p \in Parties :
          /\ party[p].pcs # <<>>
          /\ party[p].status = "idle"
          /\ party[p].timers = 0
          /\ party[p].callDuration = 0

\* C32: switchCamera has an effect only during an active video call: invoked
\* when the status is idle, or when the party has no local video track, it
\* requests no device, stops no track and changes no state.
C32_SwitchOnlyInVideoCall ==
    [][\A p \in Parties :
          (/\ SwitchCamera(p)
           /\ \/ party[p].status = "idle"
              \/ party[p].localStream = 0
              \/ party[p].streams[party[p].localStream].video = 0) =>
              UNCHANGED <<party, store>>]_vars

\* C33: in every state in which a party's status is idle it holds no resource of
\* any call: no call id, no call data, no local stream and no peer connection
\* in the refs, no live track among those it acquired, and no duration timer.
C33_IdleHoldsNothing ==
    \A p \in Parties :
        party[p].status = "idle" =>
            /\ party[p].callIdRef = NullId
            /\ party[p].callData = NoCall
            /\ party[p].localStreamRef = 0
            /\ party[p].peerConnection = 0
            /\ LiveTracks(party[p]) = {}
            /\ party[p].timers = 0

\* C34: a record never remains pending after its caller has left the call: if
\* a record's status is pending, its caller's status is calling with that call
\* id.
C34_PendingHasCaller ==
    \A q \in Parties, k \in Keys :
        incoming[q][k].status = "pending" =>
            /\ party[incoming[q][k].callerId].status = "calling"
            /\ party[incoming[q][k].callerId].callIdRef = k

\* no switchCamera of s is suspended at an await
C35_NoSwitchPending(s) == \A i \in DOMAIN s.procs : s.procs[i].op # "switch"

\* C35: the stream cleanup releases is the party's current local stream: in a
\* call, with no switchCamera in progress, localStreamRef.current and state.localStream
\* denote the same stream and every live track the party obtained from the
\* device is a track of that stream.
C35_RefIsLocalStream ==
    \A p \in Parties :
        (/\ party[p].status # "idle"
         /\ party[p].localStream # 0
         /\ C35_NoSwitchPending(party[p])) =>
            /\ party[p].localStreamRef = party[p].localStream
            /\ LiveTracks(party[p]) \subseteq
                   StreamTracks(party[p].streams[party[p].localStream])

\* C36: remote candidates reach the peer connection in the order they were
\* received, also across a drain, and none is applied twice: in the log of
\* addIceCandidate calls of a connection, the candidates of one remote
\* connection appear in the order in which they were published and delivered.
C36_AppliedInOrder ==
    \A p \in Parties : \A j \in DOMAIN party[p].pcs :
        LET log == party[p].pcs[j].applied
        IN  \A a \in DOMAIN log, b \in DOMAIN log :
                (a < b /\ log[a].c.key = log[b].c.key /\ log[a].c.from = log[b].c.from
                       /\ log[a].c.pc = log[b].c.pc) =>
                    log[a].c.n < log[b].c.n

\* C37: the mute and camera-off flags reflect the tracks being sent: for the
\* party's current peer connection, isMuted is the negation of the enabled flag
\* of the track of the audio sender and isVideoOff the negation of the enabled
\* flag of the track of the video sender, also after switchCamera.
C37_FlagsMatchSenders ==
    \A p \in Parties :
        party[p].peerConnection # 0 =>
            LET pc == party[p].pcs[party[p].peerConnection]
            IN  /\ pc.asender # 0 =>
                      party[p].isMuted = ~party[p].tracks[pc.asender].enabled
                /\ pc.vsender # 0 =>
                      party[p].isVideoOff = ~party[p].tracks[pc.vsender].enabled

\* party q rings for a call whose record is pending
C38_RingsForPending(q) ==
    /\ party[q].status = "ringing"
    /\ party[q].callIdRef # NullId
    /\ party[q].callData # NoCall
    /\ party[q].callData.id = party[q].callIdRef
    /\ incoming[q][party[q].callIdRef].status = "pending"

\* C38: a pending record that was ignored while the receiver was busy is not
\* lost: once the receiver is idle again while the record is still pending, it
\* eventually rings for a pending record (the incoming-call subscription is
\* re-established and replays the records), unless the record stops being
\* pending first.
C38_IgnoredRecordReplayed ==
    \A q \in Parties, k \in Keys \ {NullId} :
        (/\ incoming[q][k].status = "pending"
         /\ party[q].status = "idle"
         /\ \A i \in DOMAIN party[q].inbox : party[q].inbox[i] # k)
            ~> (C38_RingsForPending(q) \/ incoming[q][k].status # "pending")

\* C39: isFrontCamera is TRUE exactly when the current local video track was
\* acquired with facing mode user: for every party whose local stream has a
\* video track, with no switchCamera in progress, in every call.
C39_FlagMatchesFacing ==
    \A p \in Parties :
        (/\ party[p].localStream # 0
         /\ party[p].streams[party[p].localStream].video # 0
         /\ C35_NoSwitchPending(party[p])) =>
            (party[p].isFrontCamera <=>
                party[p].tracks[party[p].streams[party[p].localStream].video].facing
                    = "user")
====
